---- MODULE Spec2Model ----
(***************************************************************************)
(* A state-machine model of regenerate, the source-build orchestrator of   *)
(* src/src/regenerate.rs and src/src/repo_wrapper.rs.                       *)
(*                                                                         *)
(* One process ("run") owns a Regenerate value: the repo cache repo_map,   *)
(* the dependency graph, the build_completed set.  The product database    *)
(* and the clones on disk outlive the run.  The program is sequential and  *)
(* recursive: the call stack is explicit (stack), one frame per active     *)
(* call of install_product, graph_repo or install_product_impl, and every  *)
(* action executes the next piece of the frame on top.                     *)
(***************************************************************************)
EXTENDS Integers, Sequences, FiniteSets, TLC

(***************************************************************************)
(* Bounds of the model.                                                    *)
(***************************************************************************)
MaxRuns == 2
MaxInstalls == 3
MaxFaults == 1
MaxEnvChanges == 1
MaxDepth == 7

(***************************************************************************)
(* Names.                                                                  *)
(***************************************************************************)
Products == {"miniconda_lsst", "scipipe_conda", "a", "b", "c"}

\* Verbs, with config before prep.
VerbsReordered == <<"fetch", "config", "prep", "build", "install">>

Verbs == <<"fetch", "prep", "config", "build", "install">>

BootstrapProducts == {"miniconda_lsst", "scipipe_conda"}

PythonEnv == "scipipe_conda"

URLs == {"u_" \o p : p \in Products} \cup {"u_a_local"}

Range(s) == {s[i] : i \in 1..Len(s)}

Last(s) == s[Len(s)]

(***************************************************************************)
(* The two YAML maps of RepoSourceWrapper.  A value under a product key is *)
(* a plain URL string or a hash {url, ref?}; "absent" is a missing key and *)
(* "other" a value of any other YAML type (a null, a number, a list).      *)
(***************************************************************************)
Absent == [kind |-> "absent", url |-> "", ref |-> ""]

OtherValue == [kind |-> "other", url |-> "", ref |-> ""]

UrlOnly(u) == [kind |-> "str", url |-> u, ref |-> ""]

UrlWithRef(u, r) == [kind |-> "hash", url |-> u, ref |-> r]

\* One upstream repository: the refs revparse_single resolves, the branch a
\* fresh clone leaves HEAD on, and the refs whose tree checkout or set_head fail.
Repo(refs, dflt) ==
    [refs |-> refs, tags |-> {}, dflt |-> dflt, tree_fail |-> {}, sethead_fail |-> {}]

RemoteAll == [p \in Products |-> UrlOnly("u_" \o p)]

LocalNone == [p \in Products |-> Absent]

ReposStd == [u \in URLs |-> Repo({"w.1", "master"}, "master")]

NoDeps == [p \in Products |-> <<>>]

BaseTables == [NoDeps EXCEPT !["scipipe_conda"] = <<"miniconda_lsst">>]

Config(name, local, remote, repos) ==
    [name |-> name, local_map |-> local, remote_map |-> remote, repos |-> repos,
     in_br |-> <<"w.1">>, upstream |-> {"c"}]

(***************************************************************************)
(* The worlds the program is run in: the tables found in the working       *)
(* copies (each required map as the sequence its iteration yields) and the *)
(* configuration.                                                          *)
(***************************************************************************)
ChainWorld ==
    [tables |-> [BaseTables EXCEPT !["a"] = <<"b">>],
     cfg |-> Config("chain", LocalNone, RemoteAll, ReposStd)]

DiamondWorld ==
    [tables |-> [BaseTables EXCEPT !["a"] = <<"b", "c">>, !["b"] = <<"scipipe_conda">>,
                                   !["c"] = <<"scipipe_conda">>],
     cfg |-> Config("diamond", LocalNone, RemoteAll,
                    [ReposStd EXCEPT !["u_c"].tree_fail = {"w.1"}])]

CycleWorld ==
    [tables |-> [BaseTables EXCEPT !["a"] = <<"b">>, !["b"] = <<"a">>],
     cfg |-> Config("cycle", LocalNone, RemoteAll, ReposStd)]

NoUrlWorld ==
    [tables |-> [BaseTables EXCEPT !["a"] = <<"scipipe_conda", "b">>],
     cfg |-> Config("nourl", LocalNone,
                    [RemoteAll EXCEPT !["b"] = Absent], ReposStd)]

NoRefWorld ==
    [tables |-> [BaseTables EXCEPT !["a"] = <<"scipipe_conda", "b">>],
     cfg |-> Config("noref", LocalNone, RemoteAll,
                    [ReposStd EXCEPT !["u_b"] = Repo({"main"}, "main")])]

BadRootWorld ==
    [tables |-> BaseTables,
     cfg |-> Config("badroot", LocalNone, [RemoteAll EXCEPT !["a"] = Absent],
                    [ReposStd EXCEPT !["u_scipipe_conda"] = Repo({"main"}, "main")])]

MalformedWorld ==
    [tables |-> BaseTables,
     cfg |-> Config("malformed", [LocalNone EXCEPT !["miniconda_lsst"] = OtherValue],
                    RemoteAll, ReposStd)]

OverlayWorld ==
    [tables |-> [BaseTables EXCEPT !["a"] = <<"b">>, !["b"] = <<"scipipe_conda">>],
     cfg |-> Config("overlay",
                    [LocalNone EXCEPT !["a"] = UrlWithRef("u_a_local", "")],
                    [RemoteAll EXCEPT !["a"] = UrlWithRef("u_a", "base_branch"),
                                      !["b"] = UrlWithRef("u_b", "base_branch")],
                    [ReposStd EXCEPT !["u_b"] = Repo({"base_branch", "master"}, "master"),
                                     !["u_a_local"] = Repo({"master"}, "master")])]

\* Working copies that fail late: set_head fails on w.1 in b and scipipe_conda,
\* no tree of c checks out.
BrokenCopyWorld ==
    [tables |-> [BaseTables EXCEPT !["a"] = <<"b", "c">>],
     cfg |-> Config("brokencopy", LocalNone, RemoteAll,
                    [ReposStd EXCEPT !["u_b"].sethead_fail = {"w.1"},
                                     !["u_scipipe_conda"].sethead_fail = {"w.1"},
                                     !["u_c"].tree_fail = {"w.1", "master"}])]

Worlds ==
    {ChainWorld, DiamondWorld, CycleWorld, NoUrlWorld, NoRefWorld, BadRootWorld,
     BrokenCopyWorld,
     MalformedWorld, OverlayWorld}

\* The products install_product is called with, and the repositories that
\* receive commits between two runs.
Roots == {"a", "scipipe_conda"}

CommitURLs == {"u_b"}

(***************************************************************************)
(* State.                                                                  *)
(*   tables, world, gen the world: tables in the working copies, the name  *)
(*                      of the configuration, the commit generation of     *)
(*                      each upstream repository                           *)
(*   disk               <clone_root>/<product>: the clone and its HEAD     *)
(*   install_dirs       the <install_root>/<product>/<version> that exist  *)
(*   db                 the product database                               *)
(*   branches, repo_map, graph, build_completed   fields of Regenerate     *)
(*   stack, ret         the call stack and the value the last call returned*)
(*   alive, result      whether the process still runs; how the last       *)
(*                      install_product ended                              *)
(*   tmp_held           the TempDir values alive                           *)
(*   log                the events of this run, in order                   *)
(*   run, installs, faults, envchg   counters the bounds cap               *)
(*   idlog, okRoots, prevOk          history kept for the properties       *)
(***************************************************************************)
VARIABLES tables, world, gen, disk, install_dirs, db,
          branches, repo_map, graph, build_completed,
          stack, ret, alive, result, tmp_held, log,
          run, installs, faults, envchg, idlog, okRoots, prevOk

worldVars == <<tables, world, gen>>

persistVars == <<disk, install_dirs, db>>

runVars == <<branches, repo_map, graph, build_completed>>

ctlVars == <<stack, ret, alive, result, tmp_held, log>>

histVars == <<run, installs, faults, envchg, idlog, okRoots, prevOk>>

vars == <<tables, world, gen, disk, install_dirs, db,
          branches, repo_map, graph, build_completed,
          stack, ret, alive, result, tmp_held, log,
          run, installs, faults, envchg, idlog, okRoots, prevOk>>

\* The configuration of the world the program runs in.
cfg == (CHOOSE w \in Worlds : w.cfg.name = world).cfg

Ev(e, p, x, y) == [e |-> e, p |-> p, x |-> x, y |-> y]

(***************************************************************************)
(* RepoSourceWrapper.  None is the empty string.                           *)
(***************************************************************************)
EntryUrl(entry) == IF entry.kind \in {"str", "hash"} THEN entry.url ELSE ""

\* GetUrl, were the remote map asked first.
GetUrlRemoteFirst(product) ==
    IF cfg.remote_map[product].kind # "absent"
    THEN EntryUrl(cfg.remote_map[product])
    ELSE EntryUrl(cfg.local_map[product])

GetUrl(product) ==
    IF cfg.local_map[product].kind # "absent"
    THEN EntryUrl(cfg.local_map[product])
    ELSE EntryUrl(cfg.remote_map[product])

\* get_url panics on a value that is neither a string nor a hash.
GetUrlPanics(product) ==
    IF cfg.local_map[product].kind # "absent"
    THEN cfg.local_map[product].kind = "other"
    ELSE cfg.remote_map[product].kind = "other"

Matcher(map, product) ==
    IF map[product].kind = "hash" THEN map[product].ref ELSE ""

HasRef(product) ==
    IF cfg.local_map[product].kind # "absent" THEN Matcher(cfg.local_map, product)
    ELSE IF cfg.remote_map[product].kind # "absent"
         THEN Matcher(cfg.remote_map, product)
         ELSE ""

(***************************************************************************)
(* Commits.  The SHA a ref of a repository points at; 40 hex digits in the *)
(* program, here a self-delimiting string, so that concatenations of SHAs  *)
(* are equal only when the SHAs are.                                       *)
(***************************************************************************)
ShaOf(url, ref) == url \o "@" \o ref \o "#" \o ToString(gen[url]) \o ";"

Sha1(bytes) == "sha1(" \o bytes \o ")"

NoDisk == [present |-> FALSE, url |-> "", ns |-> "", name |-> ""]

\* Regenerate::new: the branch preference list is the user's branches, then master.
NewBranches(in_br) == in_br \o <<"master">>

(***************************************************************************)
(* get_or_clone_repo.  outcome is what the file system and the network do: *)
(* "ok", "open_fail" (the clone on disk does not open and is cloned again) *)
(* or "clone_fail".                                                        *)
(***************************************************************************)
Cloned(url) ==
    [present |-> TRUE, url |-> url, ns |-> "refs/heads/", name |-> cfg.repos[url].dflt]

GetOrCloneRepo(product, outcome) ==
    LET repo_src == GetUrl(product)
        same == [ret |-> "err", repo_map |-> repo_map, disk |-> disk, ev |-> <<>>]
    IN IF GetUrlPanics(product) THEN [same EXCEPT !.ret = "panic"]
       ELSE IF repo_src = "" THEN same
       ELSE IF disk[product].present /\ outcome = "ok"
       THEN [same EXCEPT !.ret = "ok", !.repo_map = repo_map \cup {product},
                         !.ev = <<Ev("open", product, disk[product].url, "")>>]
       ELSE IF outcome = "clone_fail"
       THEN [same EXCEPT !.ret = "panic",
                         !.disk = [disk EXCEPT ![product] = NoDisk]]
       ELSE [same EXCEPT !.ret = "ok", !.repo_map = repo_map \cup {product},
                         !.disk = [disk EXCEPT ![product] = Cloned(repo_src)],
                         !.ev = <<Ev("clone", product, repo_src, "")>>]

CloneOutcomes(product) ==
    IF faults >= MaxFaults \/ GetUrl(product) = "" THEN {"ok"}
    ELSE IF disk[product].present THEN {"ok", "open_fail"}
    ELSE {"ok", "clone_fail"}

(***************************************************************************)
(* checkout_branch.                                                        *)
(***************************************************************************)
NotMaster(x) == x # "master"

\* RefList, were master kept in front of a pinned ref.
RefListKeepsMaster(repo_name) ==
    IF HasRef(repo_name) # "" THEN Append(branches, HasRef(repo_name)) ELSE branches

RefList(repo_name) ==
    IF HasRef(repo_name) # ""
    THEN Append(SelectSeq(branches, NotMaster), HasRef(repo_name))
    ELSE branches

RECURSIVE TryRefsFirstResolved(_, _, _, _)
\* TryRefs, were the first ref that resolves taken whatever its tree checkout does.
TryRefsFirstResolved(repo_name, cands, k, d) ==
    IF k > Len(cands) THEN [ret |-> "nomatch", disk |-> d, ref |-> ""]
    ELSE LET name == cands[k]
             up == cfg.repos[d.url]
         IN IF name \notin up.refs \cup up.tags
            THEN TryRefsFirstResolved(repo_name, cands, k + 1, d)
            ELSE [ret |-> "ok", ref |-> name,
                  disk |-> [d EXCEPT !.ns = IF name \in up.tags THEN "refs/tags/"
                                            ELSE "refs/remotes/",
                                     !.name = name]]

RECURSIVE TryRefsMovesHead(_, _, _, _)
RECURSIVE TryRefsSkipsSetHead(_, _, _, _)
RECURSIVE TryRefs(_, _, _, _)
\* TryRefs, were HEAD left on the last candidate when none checks out.
TryRefsMovesHead(repo_name, cands, k, d) ==
    IF k > Len(cands)
    THEN [ret |-> "nomatch", ref |-> "",
          disk |-> [d EXCEPT !.name = cands[Len(cands)], !.ns = "refs/remotes/"]]
    ELSE LET name == cands[k]
             up == cfg.repos[d.url]
         IN IF name \notin up.refs \cup up.tags
            THEN TryRefsMovesHead(repo_name, cands, k + 1, d)
            ELSE IF name \in up.tree_fail
            THEN TryRefsMovesHead(repo_name, cands, k + 1, d)
            ELSE IF name \in up.sethead_fail
            THEN [ret |-> "sethead", disk |-> d, ref |-> name]
            ELSE [ret |-> "ok", ref |-> name,
                  disk |-> [d EXCEPT !.ns = IF name \in up.tags THEN "refs/tags/"
                                            ELSE "refs/remotes/",
                                     !.name = name]]

\* TryRefs, were a failed set_head passed over like a failed tree checkout.
TryRefsSkipsSetHead(repo_name, cands, k, d) ==
    IF k > Len(cands) THEN [ret |-> "nomatch", disk |-> d, ref |-> ""]
    ELSE LET name == cands[k]
             up == cfg.repos[d.url]
         IN IF name \notin up.refs \cup up.tags
            THEN TryRefsSkipsSetHead(repo_name, cands, k + 1, d)
            ELSE IF name \in up.tree_fail \cup up.sethead_fail
            THEN TryRefsSkipsSetHead(repo_name, cands, k + 1, d)
            ELSE [ret |-> "ok", ref |-> name,
                  disk |-> [d EXCEPT !.ns = IF name \in up.tags THEN "refs/tags/"
                                            ELSE "refs/remotes/",
                                     !.name = name]]

\* The loop over the candidate refs, from candidate k on, in the clone d.
TryRefs(repo_name, cands, k, d) ==
    IF k > Len(cands) THEN [ret |-> "nomatch", disk |-> d, ref |-> ""]
    ELSE LET name == cands[k]
             up == cfg.repos[d.url]
         IN IF name \notin up.refs \cup up.tags
            THEN TryRefs(repo_name, cands, k + 1, d)
            ELSE IF name \in up.tree_fail
            THEN TryRefs(repo_name, cands, k + 1, d)
            ELSE IF name \in up.sethead_fail
            THEN [ret |-> "sethead", disk |-> d, ref |-> name]
            ELSE [ret |-> "ok", ref |-> name,
                  disk |-> [d EXCEPT !.ns = IF name \in up.tags THEN "refs/tags/"
                                            ELSE "refs/remotes/",
                                     !.name = name]]

CheckoutBranch(repo_name, rm, dk) ==
    IF repo_name \notin rm THEN [ret |-> "panic", disk |-> dk, ref |-> ""]
    ELSE LET r == TryRefs(repo_name, RefList(repo_name), 1, dk[repo_name])
         IN [ret |-> r.ret, disk |-> [dk EXCEPT ![repo_name] = r.disk], ref |-> r.ref]

\* GetShaOfHead, were HEAD read as the branch the clone started on.
GetShaOfHeadDefault(name) ==
    IF name \notin repo_map THEN ""
    ELSE ShaOf(disk[name].url, cfg.repos[disk[name].url].dflt)

\* get_sha_of_head: the commit HEAD points at ("" when the product has no handle).
GetShaOfHead(name) ==
    IF name \notin repo_map THEN ""
    ELSE ShaOf(disk[name].url, disk[name].name)

(***************************************************************************)
(* reups::graph::Graph: nodes in insertion order, edges parent -> child in *)
(* insertion order, each carrying the child's SHA.                         *)
(***************************************************************************)
EmptyGraph == [nodes |-> <<>>, edges |-> <<>>]

HasProduct(g, name) == name \in Range(g.nodes)

AddOrUpdateProduct(g, name) ==
    IF HasProduct(g, name) THEN g ELSE [g EXCEPT !.nodes = Append(@, name)]

ConnectProducts(g, source, target, version) ==
    IF HasProduct(g, source) /\ HasProduct(g, target)
    THEN [g EXCEPT !.edges = Append(@, [src |-> source, dst |-> target, sha |-> version])]
    ELSE g

RECURSIVE EdgeShas(_, _, _)
EdgeShas(g, name, k) ==
    IF k > Len(g.edges) THEN <<>>
    ELSE (IF g.edges[k].dst = name THEN <<g.edges[k].sha>> ELSE <<>>)
         \o EdgeShas(g, name, k + 1)

ProductVersions(g, name) == EdgeShas(g, name, 1)

RECURSIVE EdgeKids(_, _, _)
EdgeKids(g, name, k) ==
    IF k > Len(g.edges) THEN <<>>
    ELSE (IF g.edges[k].src = name THEN <<g.edges[k].dst>> ELSE <<>>)
         \o EdgeKids(g, name, k + 1)

RECURSIVE DfsVisit(_, _, _)
RECURSIVE DfsKids(_, _, _, _)
\* acc.seen: the nodes discovered; acc.out: the nodes finished, in order.
DfsVisit(g, n, acc) ==
    IF n \in acc.seen THEN acc
    ELSE LET a1 == DfsKids(g, EdgeKids(g, n, 1), 1, [acc EXCEPT !.seen = @ \cup {n}])
         IN [a1 EXCEPT !.out = Append(@, n)]

DfsKids(g, kids, k, acc) ==
    IF k > Len(kids) THEN acc
    ELSE DfsKids(g, kids, k + 1, DfsVisit(g, kids[k], acc))

\* dfs_post_order: children before parents, each node once, the root last;
\* <<>> stands for the error on a root the graph does not hold.
DfsPostOrder(g, root) ==
    IF ~HasProduct(g, root) THEN <<>>
    ELSE DfsVisit(g, root, [seen |-> {}, out |-> <<>>]).out

(***************************************************************************)
(* make_product_id: SHA-1 over the canonical SHAs of the post-order walk.  *)
(***************************************************************************)
\* CanonicalSha, were a node without a recorded version left out of the hash.
CanonicalShaNoHead(g, name) ==
    LET hashes == ProductVersions(g, name)
    IN IF Len(hashes) = 0 THEN "" ELSE hashes[1]

CanonicalSha(g, name) ==
    LET hashes == ProductVersions(g, name)
    IN IF Len(hashes) = 0 THEN GetShaOfHead(name) ELSE hashes[1]

RECURSIVE HashInputReversed(_, _, _)
\* HashInput, parents before children.
HashInputReversed(g, order, k) ==
    IF k > Len(order) THEN ""
    ELSE HashInputReversed(g, order, k + 1) \o CanonicalSha(g, order[k])

RECURSIVE HashInput(_, _, _)
HashInput(g, order, k) ==
    IF k > Len(order) THEN ""
    ELSE CanonicalSha(g, order[k]) \o HashInput(g, order, k + 1)

\* MakeProductId, were a product the graph does not hold hashed as an empty walk.
MakeProductIdOfUnknown(product) ==
    [ret |-> "ok", id |-> Sha1(HashInput(graph, DfsPostOrder(graph, product), 1))]

\* [ret, id]: ret is "err" for a product the graph does not hold.
MakeProductId(product) ==
    IF ~HasProduct(graph, product) THEN [ret |-> "err", id |-> ""]
    ELSE [ret |-> "ok", id |-> Sha1(HashInput(graph, DfsPostOrder(graph, product), 1))]


(***************************************************************************)
(* The product database (reups::DB): the declared products, by identity.   *)
(***************************************************************************)
HasIdentity(d, product, id) == \E e \in d : e.product = product /\ e.ident = id

\* StoredTable, were the table of a database hit not the stored one.
StoredTableEmpty(d, product, id) == ""

\* The table the database holds for (product, id), as install_product_impl
\* fetches it on a database hit.
StoredTable(d, product, id) ==
    (CHOOSE e \in d : e.product = product /\ e.ident = id).table

Declare(d, product, id, table) ==
    {e \in d : ~(e.product = product /\ e.ident = id)}
        \cup {[product |-> product, ident |-> id, table |-> table]}

(***************************************************************************)
(* accumulate_env: the loop over the dependency list.  Returns how it      *)
(* ended and the setup_table calls made, as events.                        *)
(***************************************************************************)
RECURSIVE AccumulateEnvNoLookup(_, _, _, _)
\* AccumulateEnv, were a node the database does not hold set up all the same.
AccumulateEnvNoLookup(product, products, k, local_table_ok) ==
    IF k > Len(products) THEN [ret |-> "ok", ev |-> <<>>]
    ELSE LET node_name == products[k]
             node_id == MakeProductId(node_name)
         IN IF node_id.ret # "ok" THEN [ret |-> "err", ev |-> <<>>]
            ELSE IF node_name = product /\ ~local_table_ok
            THEN [ret |-> "err", ev |-> <<>>]
            ELSE LET rest == AccumulateEnvNoLookup(product, products, k + 1, local_table_ok)
                     here == Ev("env", product, node_name,
                                IF node_name = product THEN "LOCAL" ELSE "db")
                 IN [ret |-> rest.ret, ev |-> <<here>> \o rest.ev]

RECURSIVE AccumulateEnv(_, _, _, _)
AccumulateEnv(product, products, k, local_table_ok) ==
    IF k > Len(products) THEN [ret |-> "ok", ev |-> <<>>]
    ELSE LET node_name == products[k]
             node_id == MakeProductId(node_name)
         IN IF node_id.ret # "ok" THEN [ret |-> "err", ev |-> <<>>]
            ELSE IF node_name = product /\ ~local_table_ok
            THEN [ret |-> "err", ev |-> <<>>]
            ELSE IF node_name # product /\ ~HasIdentity(db, node_name, node_id.id)
            THEN [ret |-> "err", ev |-> <<Ev("undeclared", product, node_name, "")>>]
            ELSE LET rest == AccumulateEnv(product, products, k + 1, local_table_ok)
                     here == Ev("env", product, node_name,
                                IF node_name = product THEN "LOCAL" ELSE "db")
                 IN [ret |-> rest.ret, ev |-> <<here>> \o rest.ev]

(***************************************************************************)
(* The dependency list of a source build (install_product_impl): the       *)
(* post-order walk, with scipipe_conda put first unless the walk holds it  *)
(* or the product is one of the two bootstrap products.                    *)
(***************************************************************************)
RECURSIVE HasPython(_, _)
HasPython(names, k) ==
    IF k > Len(names) THEN FALSE
    ELSE names[k] = PythonEnv \/ HasPython(names, k + 1)

\* DependencyNames, without the bootstrap rule.
DependencyNamesPlain(product) == DfsPostOrder(graph, product)

DependencyNames(product) ==
    LET names == DfsPostOrder(graph, product)
    IN IF product \notin BootstrapProducts /\ ~HasPython(names, 1)
       THEN <<PythonEnv>> \o names
       ELSE names

(***************************************************************************)
(* The call stack.                                                         *)
(***************************************************************************)
Frame(fn, product, pc) ==
    [fn |-> fn, product |-> product, pc |-> pc, i |-> 1, names |-> <<>>, id |-> "",
     table |-> ""]

Top == stack[Len(stack)]

At(fn, pc) == alive /\ stack # <<>> /\ Top.fn = fn /\ Top.pc = pc

SetTop(f) == [stack EXCEPT ![Len(stack)] = f]

Popped == SubSeq(stack, 1, Len(stack) - 1)

\* The call goes on: the stack and the value handed back by a call that returned.
Goto(newstack, r, evs) ==
    /\ stack' = newstack
    /\ ret' = r
    /\ log' = log \o evs
    /\ UNCHANGED <<alive, result>>

\* install_product is over: returned ("ok", "err") or the process died
\* ("panic": a panic unwinds and drops every local; "overflow": the stack ran out).
Finish(res, evs) ==
    /\ stack' = <<>>
    /\ ret' = "none"
    /\ result' = res
    /\ alive' = (res \in {"ok", "err"})
    /\ log' = log \o evs \o <<Ev("return", stack[1].product, res, "")>>

\* A call one level deeper, or the end of the process when the stack is full.
Call(f, caller, evs) ==
    IF Len(stack) < MaxDepth
    THEN Goto(Append(SetTop(caller), f), "none", evs)
    ELSE Finish("overflow", evs)

Outcomes(S) == IF faults < MaxFaults THEN S ELSE {"ok"}

Fault(o) == faults' = faults + (IF o = "ok" THEN 0 ELSE 1)

Computed(product, r) ==
    IF r.ret = "ok"
    THEN {[n |-> product, tables |-> tables, gen |-> gen, run |-> run,
           call |-> installs, id |-> r.id]}
    ELSE {}

(***************************************************************************)
(* install_product                                                         *)
(***************************************************************************)
InstallProduct(root) ==
    /\ alive /\ stack = <<>> /\ installs < MaxInstalls
    /\ stack' = <<Frame("install_product", root, "clone")>>
    /\ ret' = "none"
    /\ result' = "running"
    /\ log' = Append(log, Ev("call", root, "", ""))
    /\ installs' = installs + 1
    /\ UNCHANGED <<worldVars, persistVars, runVars, alive, tmp_held,
                   run, faults, envchg, idlog, okRoots, prevOk>>

\* InstallClone, were the result of the clone dropped as graph_repo drops it.
InstallCloneDropsError ==
    /\ At("install_product", "clone")
    /\ \E o \in CloneOutcomes(Top.product) :
          LET r == GetOrCloneRepo(Top.product, o)
          IN /\ Fault(o)
             /\ repo_map' = r.repo_map
             /\ disk' = r.disk
             /\ IF r.ret # "panic"
                THEN Goto(SetTop([Top EXCEPT !.pc = "checkout"]), "none", r.ev)
                ELSE Finish(r.ret, r.ev)
    /\ UNCHANGED <<worldVars, install_dirs, db, branches, graph, build_completed,
                   tmp_held, run, installs, envchg, idlog, okRoots, prevOk>>

\* self.get_or_clone_repo(product)?
InstallClone ==
    /\ At("install_product", "clone")
    /\ \E o \in CloneOutcomes(Top.product) :
          LET r == GetOrCloneRepo(Top.product, o)
          IN /\ Fault(o)
             /\ repo_map' = r.repo_map
             /\ disk' = r.disk
             /\ IF r.ret = "ok"
                THEN Goto(SetTop([Top EXCEPT !.pc = "checkout"]), "none", r.ev)
                ELSE Finish(r.ret, r.ev)
    /\ UNCHANGED <<worldVars, install_dirs, db, branches, graph, build_completed,
                   tmp_held, run, installs, envchg, idlog, okRoots, prevOk>>

\* self.checkout_branch(product)?; self.graph_repo(product, Required)
InstallCheckout ==
    /\ At("install_product", "checkout")
    /\ LET r == CheckoutBranch(Top.product, repo_map, disk)
           ev == <<Ev("checkout", Top.product, r.ret, r.ref)>>
       IN /\ disk' = r.disk
          /\ IF r.ret = "ok"
             THEN Call(Frame("graph_repo", Top.product, "enter"),
                       [Top EXCEPT !.pc = "impl"], ev)
             ELSE Finish(IF r.ret = "panic" THEN "panic" ELSE "err", ev)
    /\ UNCHANGED <<worldVars, install_dirs, db, runVars, tmp_held, histVars>>

\* self.install_product_impl(product)
InstallImpl ==
    /\ At("install_product", "impl")
    /\ Call(Frame("install_product_impl", Top.product, "entry"),
            [Top EXCEPT !.pc = "done"], <<Ev("resolved", Top.product, "", "")>>)
    /\ UNCHANGED <<worldVars, persistVars, runVars, tmp_held, histVars>>

InstallReturn ==
    /\ At("install_product", "done")
    /\ Finish(ret, <<>>)
    /\ okRoots' = IF ret = "ok" THEN okRoots \cup {Top.product} ELSE okRoots
    /\ UNCHANGED <<worldVars, persistVars, runVars, tmp_held,
                   run, installs, faults, envchg, idlog, prevOk>>

(***************************************************************************)
(* graph_repo                                                              *)
(***************************************************************************)
\* GraphEnter, were the node not added before its dependencies are visited.
GraphEnterAddsNothing ==
    /\ At("graph_repo", "enter")
    /\ \E o \in Outcomes({"ok", "table_fail"}) :
          /\ Fault(o)
          /\ UNCHANGED graph
          /\ IF Top.product \notin repo_map
             THEN Finish("panic", <<>>)
             ELSE IF o = "ok"
             THEN Goto(SetTop([Top EXCEPT !.pc = "loop", !.i = 1,
                                          !.names = tables[Top.product]]),
                       "none", <<Ev("graph", Top.product, "", "")>>)
             ELSE Finish("panic", <<Ev("graph", Top.product, "", "")>>)
    /\ UNCHANGED <<worldVars, persistVars, branches, repo_map, build_completed,
                   tmp_held, run, installs, envchg, idlog, okRoots, prevOk>>

\* The handle is unwrapped, the node added, the table parsed and unwrapped.
GraphEnter ==
    /\ At("graph_repo", "enter")
    /\ \E o \in Outcomes({"ok", "table_fail"}) :
          /\ Fault(o)
          /\ IF Top.product \notin repo_map
             THEN Finish("panic", <<>>) /\ UNCHANGED graph
             ELSE /\ graph' = AddOrUpdateProduct(graph, Top.product)
                  /\ IF o = "ok"
                     THEN Goto(SetTop([Top EXCEPT !.pc = "loop", !.i = 1,
                                                  !.names = tables[Top.product]]),
                               "none", <<Ev("graph", Top.product, "", "")>>)
                     ELSE Finish("panic", <<Ev("graph", Top.product, "", "")>>)
    /\ UNCHANGED <<worldVars, persistVars, branches, repo_map, build_completed,
                   tmp_held, run, installs, envchg, idlog, okRoots, prevOk>>

\* GraphDep, were the graph not asked whether it holds the dependency.
GraphDepAlwaysRecurses ==
    /\ At("graph_repo", "loop") /\ Top.i <= Len(Top.names)
    /\ LET dep_name == Top.names[Top.i]
           next == [Top EXCEPT !.pc = "connect"]
       IN \E o \in CloneOutcomes(dep_name) :
             LET c == GetOrCloneRepo(dep_name, o)
                 k == CheckoutBranch(dep_name, c.repo_map, c.disk)
                 ev == c.ev \o <<Ev("checkout", dep_name, k.ret, k.ref)>>
             IN /\ Fault(o)
                /\ repo_map' = c.repo_map
                /\ IF c.ret = "panic"
                   THEN disk' = c.disk /\ Finish("panic", c.ev)
                   ELSE /\ disk' = k.disk
                        /\ IF k.ret = "panic"
                           THEN Finish("panic", ev)
                           ELSE Call(Frame("graph_repo", dep_name, "enter"), next, ev)
    /\ UNCHANGED <<worldVars, install_dirs, db, branches, graph, build_completed,
                   tmp_held, run, installs, envchg, idlog, okRoots, prevOk>>

\* GraphDep, were a dependency that cannot be cloned passed over.
GraphDepSkipsFailed ==
    /\ At("graph_repo", "loop") /\ Top.i <= Len(Top.names)
    /\ LET dep_name == Top.names[Top.i]
           next == [Top EXCEPT !.pc = "connect"]
       IN IF HasProduct(graph, dep_name)
          THEN /\ Goto(SetTop(next), "none", <<>>)
               /\ UNCHANGED <<repo_map, disk, faults>>
          ELSE \E o \in CloneOutcomes(dep_name) :
                  LET c == GetOrCloneRepo(dep_name, o)
                      k == CheckoutBranch(dep_name, c.repo_map, c.disk)
                      ev == c.ev \o <<Ev("checkout", dep_name, k.ret, k.ref)>>
                  IN /\ Fault(o)
                     /\ repo_map' = c.repo_map
                     /\ IF c.ret # "ok"
                        THEN /\ disk' = c.disk
                             /\ Goto(SetTop([Top EXCEPT !.i = @ + 1]), "none", c.ev)
                        ELSE /\ disk' = k.disk
                             /\ Call(Frame("graph_repo", dep_name, "enter"), next, ev)
    /\ UNCHANGED <<worldVars, install_dirs, db, branches, graph, build_completed,
                   tmp_held, run, installs, envchg, idlog, okRoots, prevOk>>

\* One required dependency: cloned, checked out and graphed unless the graph
\* holds it already.  The results of the clone and of the checkout are dropped.
GraphDep ==
    /\ At("graph_repo", "loop") /\ Top.i <= Len(Top.names)
    /\ LET dep_name == Top.names[Top.i]
           next == [Top EXCEPT !.pc = "connect"]
       IN IF HasProduct(graph, dep_name)
          THEN /\ Goto(SetTop(next), "none", <<>>)
               /\ UNCHANGED <<repo_map, disk, faults>>
          ELSE \E o \in CloneOutcomes(dep_name) :
                  LET c == GetOrCloneRepo(dep_name, o)
                      k == CheckoutBranch(dep_name, c.repo_map, c.disk)
                      ev == c.ev \o <<Ev("checkout", dep_name, k.ret, k.ref)>>
                  IN /\ Fault(o)
                     /\ repo_map' = c.repo_map
                     /\ IF c.ret = "panic"
                        THEN disk' = c.disk /\ Finish("panic", c.ev)
                        ELSE /\ disk' = k.disk
                             /\ IF k.ret = "panic"
                                THEN Finish("panic", ev)
                                ELSE Call(Frame("graph_repo", dep_name, "enter"), next, ev)
    /\ UNCHANGED <<worldVars, install_dirs, db, branches, graph, build_completed,
                   tmp_held, run, installs, envchg, idlog, okRoots, prevOk>>

\* GraphConnect, were the edge given the SHA of the parent's HEAD.
GraphConnectParentSha ==
    /\ At("graph_repo", "connect")
    /\ LET dep_name == Top.names[Top.i]
           sha == GetShaOfHead(Top.product)
       IN IF GetShaOfHead(dep_name) = ""
          THEN Finish("panic", <<>>) /\ UNCHANGED graph
          ELSE /\ graph' = ConnectProducts(graph, Top.product, dep_name, sha)
               /\ Goto(SetTop([Top EXCEPT !.pc = "loop", !.i = @ + 1]), "none",
                       <<Ev("edge", Top.product, dep_name, sha)>>)
    /\ UNCHANGED <<worldVars, persistVars, branches, repo_map, build_completed,
                   tmp_held, histVars>>

\* The edge to the dependency, with the SHA of its HEAD.
GraphConnect ==
    /\ At("graph_repo", "connect")
    /\ LET dep_name == Top.names[Top.i]
           sha == GetShaOfHead(dep_name)
       IN IF sha = ""
          THEN Finish("panic", <<>>) /\ UNCHANGED graph
          ELSE /\ graph' = ConnectProducts(graph, Top.product, dep_name, sha)
               /\ Goto(SetTop([Top EXCEPT !.pc = "loop", !.i = @ + 1]), "none",
                       <<Ev("edge", Top.product, dep_name, sha)>>)
    /\ UNCHANGED <<worldVars, persistVars, branches, repo_map, build_completed,
                   tmp_held, histVars>>

GraphReturn ==
    /\ At("graph_repo", "loop") /\ Top.i > Len(Top.names)
    /\ Goto(Popped, "unit", <<>>)
    /\ UNCHANGED <<worldVars, persistVars, runVars, tmp_held, histVars>>


(***************************************************************************)
(* install_product_impl                                                    *)
(***************************************************************************)
\* ImplEntry, without the short circuit on build_completed.
ImplEntryNoShortCircuit ==
    /\ At("install_product_impl", "entry")
    /\ LET product == Top.product
           r == MakeProductId(product)
       IN /\ idlog' = idlog \cup Computed(product, r)
          /\ IF r.ret # "ok"
             THEN Goto(Popped, "err", <<Ev("unknown_node", product, "", "")>>)
             ELSE IF HasIdentity(db, product, r.id)
             THEN Goto(SetTop([Top EXCEPT !.pc = "declare", !.id = r.id,
                                          !.table = StoredTable(db, product, r.id)]),
                       "none", <<Ev("dbhit", product, r.id, "")>>)
             ELSE Goto(SetTop([Top EXCEPT !.pc = "deps", !.id = r.id, !.i = 1,
                                          !.names = DependencyNames(product)]),
                       "none", <<Ev("source", product, r.id, "")>>)
    /\ UNCHANGED <<worldVars, persistVars, runVars, tmp_held,
                   run, installs, faults, envchg, okRoots, prevOk>>

\* ImplEntry, were the dependencies of a product found in the database
\* installed all the same.
ImplEntryHitRecurses ==
    /\ At("install_product_impl", "entry")
    /\ LET product == Top.product
           r == MakeProductId(product)
       IN IF product \in build_completed
          THEN Goto(Popped, "ok", <<>>) /\ UNCHANGED idlog
          ELSE /\ idlog' = idlog \cup Computed(product, r)
               /\ IF r.ret # "ok"
                  THEN Goto(Popped, "err", <<Ev("unknown_node", product, "", "")>>)
                  ELSE Goto(SetTop([Top EXCEPT !.pc = "deps", !.id = r.id, !.i = 1,
                                               !.names = DependencyNames(product)]),
                            "none",
                            <<Ev(IF HasIdentity(db, product, r.id) THEN "dbhit" ELSE "source",
                                 product, r.id, "")>>)
    /\ UNCHANGED <<worldVars, persistVars, runVars, tmp_held,
                   run, installs, faults, envchg, okRoots, prevOk>>

\* The short circuit on build_completed, the identity, the database lookup.
ImplEntry ==
    /\ At("install_product_impl", "entry")
    /\ LET product == Top.product
           r == MakeProductId(product)
       IN IF product \in build_completed
          THEN Goto(Popped, "ok", <<>>) /\ UNCHANGED idlog
          ELSE /\ idlog' = idlog \cup Computed(product, r)
               /\ IF r.ret # "ok"
                  THEN Goto(Popped, "err", <<Ev("unknown_node", product, "", "")>>)
                  ELSE IF HasIdentity(db, product, r.id)
                  THEN Goto(SetTop([Top EXCEPT !.pc = "declare", !.id = r.id,
                                               !.table = StoredTable(db, product, r.id)]),
                            "none", <<Ev("dbhit", product, r.id, "")>>)
                  ELSE Goto(SetTop([Top EXCEPT !.pc = "deps", !.id = r.id, !.i = 1,
                                               !.names = DependencyNames(product)]),
                            "none", <<Ev("source", product, r.id, "")>>)
    /\ UNCHANGED <<worldVars, persistVars, runVars, tmp_held,
                   run, installs, faults, envchg, okRoots, prevOk>>

\* ImplDep, were the python environment taken as installed.
ImplDepSkipsPython ==
    /\ At("install_product_impl", "deps")
    /\ LET product == Top.product
       IN IF ret = "err" THEN Goto(Popped, "err", <<>>)
          ELSE IF Top.i > Len(Top.names)
          THEN Goto(SetTop([Top EXCEPT !.pc = "dirs"]), "none", <<>>)
          ELSE IF Top.names[Top.i] \notin {product, PythonEnv}
          THEN Call(Frame("install_product_impl", Top.names[Top.i], "entry"),
                    [Top EXCEPT !.i = @ + 1],
                    <<Ev("dep", product, Top.names[Top.i], "")>>)
          ELSE Goto(SetTop([Top EXCEPT !.i = @ + 1]), "none", <<>>)
    /\ UNCHANGED <<worldVars, persistVars, runVars, tmp_held, histVars>>

\* The loop over the dependency list: install_product_impl(name)? for every
\* name but the product itself.
ImplDep ==
    /\ At("install_product_impl", "deps")
    /\ LET product == Top.product
       IN IF ret = "err" THEN Goto(Popped, "err", <<>>)
          ELSE IF Top.i > Len(Top.names)
          THEN Goto(SetTop([Top EXCEPT !.pc = "dirs"]), "none", <<>>)
          ELSE IF Top.names[Top.i] # product
          THEN Call(Frame("install_product_impl", Top.names[Top.i], "entry"),
                    [Top EXCEPT !.i = @ + 1],
                    <<Ev("dep", product, Top.names[Top.i], "")>>)
          ELSE Goto(SetTop([Top EXCEPT !.i = @ + 1]), "none", <<>>)
    /\ UNCHANGED <<worldVars, persistVars, runVars, tmp_held, histVars>>

\* The install directory is created, then made canonical; the working copy is
\* looked up; the temporary directory is made, and dropped at once unless the
\* working copy holds upstream/.
ImplDirs ==
    /\ At("install_product_impl", "dirs")
    /\ \E o \in Outcomes({"ok", "mkdir_fail", "canon_fail"}) :
          LET product == Top.product
              made == <<Ev("mkdir", product, "", "")>>
          IN /\ Fault(o)
             /\ install_dirs' = IF o = "mkdir_fail" THEN install_dirs
                                ELSE install_dirs \cup {product}
             /\ IF o = "mkdir_fail" THEN Goto(Popped, "err", <<>>) /\ UNCHANGED tmp_held
                ELSE IF o = "canon_fail"
                THEN /\ Goto(Popped, "err", made \o <<Ev("canon", product, "failed", "io")>>)
                     /\ UNCHANGED tmp_held
                ELSE IF product \notin repo_map
                THEN Goto(Popped, "err", made) /\ UNCHANGED tmp_held
                ELSE /\ tmp_held' = IF product \in cfg.upstream
                                    THEN tmp_held \cup {product} ELSE tmp_held
                     /\ Goto(SetTop([Top EXCEPT !.pc = "env"]), "none",
                             made \o <<Ev("canon", product, "", ""),
                                       Ev("tmp", product,
                                          IF product \in cfg.upstream THEN "kept"
                                          ELSE "dropped", "")>>)
    /\ UNCHANGED <<worldVars, disk, db, runVars,
                   run, installs, envchg, idlog, okRoots, prevOk>>

\* The directories as the copy of install_product_impl in main.rs makes them:
\* the install path is canonicalized first, which fails for a path that does
\* not exist, and created afterwards; no temporary directory is taken.
MainImplDirs ==
    /\ At("install_product_impl", "dirs")
    /\ \E o \in Outcomes({"ok", "mkdir_fail", "canon_fail"}) :
          LET product == Top.product
              canon == <<Ev("canon", product, "", "")>>
          IN /\ Fault(o)
             /\ UNCHANGED <<install_dirs, tmp_held>>
             /\ IF product \notin install_dirs
                THEN /\ o = "ok"
                     /\ Goto(Popped, "err", <<Ev("canon", product, "failed", "missing")>>)
                ELSE IF o = "canon_fail"
                THEN Goto(Popped, "err", <<Ev("canon", product, "failed", "io")>>)
                ELSE IF o = "mkdir_fail" THEN Goto(Popped, "err", canon)
                ELSE IF product \notin repo_map
                THEN Goto(Popped, "err", canon \o <<Ev("mkdir", product, "", "")>>)
                ELSE Goto(SetTop([Top EXCEPT !.pc = "env"]), "none",
                          canon \o <<Ev("mkdir", product, "", "")>>)
    /\ UNCHANGED <<worldVars, disk, db, runVars,
                   run, installs, envchg, idlog, okRoots, prevOk>>

EnvNodes(evs) == {evs[k].x : k \in 1..Len(evs)}

\* accumulate_env(product, &repo_path, &names)?
ImplEnv ==
    /\ At("install_product_impl", "env")
    /\ \E o \in Outcomes({"ok", "table_fail"}) :
          LET product == Top.product
              r == AccumulateEnv(product, Top.names, 1, o = "ok")
          IN /\ Fault(o)
             /\ idlog' = idlog \cup UNION {Computed(n, MakeProductId(n)) : n \in EnvNodes(r.ev)}
             /\ IF r.ret = "ok"
                THEN /\ Goto(SetTop([Top EXCEPT !.pc = "build", !.i = 1]), "none",
                             r.ev \o <<Ev("build_start", product, "", "")>>)
                     /\ UNCHANGED tmp_held
                ELSE /\ Goto(Popped, "err", r.ev)
                     /\ tmp_held' = tmp_held \ {product}
    /\ UNCHANGED <<worldVars, persistVars, runVars,
                   run, installs, envchg, okRoots, prevOk>>

\* ImplVerb, were a failed verb only logged.
ImplVerbContinues ==
    /\ At("install_product_impl", "build")
    /\ \E o \in Outcomes({"ok", "exit2", "spawn"}) :
          LET product == Top.product
              ev == <<Ev("verb", product, Verbs[Top.i],
                         IF o = "ok" THEN "0" ELSE IF o = "exit2" THEN "2" ELSE "spawn")>>
          IN /\ Fault(o)
             /\ UNCHANGED tmp_held
             /\ IF Top.i < Len(Verbs)
                THEN Goto(SetTop([Top EXCEPT !.i = @ + 1]), "none", ev)
                ELSE Goto(SetTop([Top EXCEPT !.pc = "post"]), "none",
                          ev \o <<Ev("built", product, "", "")>>)
    /\ UNCHANGED <<worldVars, persistVars, runVars,
                   run, installs, envchg, idlog, okRoots, prevOk>>

VerbStatus(o) == IF o = "ok" THEN "0" ELSE IF o = "exit2" THEN "2" ELSE "spawn"

\* build_product: one invocation of the build tool; anything but exit status 0 panics.
ImplVerb ==
    /\ At("install_product_impl", "build")
    /\ \E o \in Outcomes({"ok", "exit2", "spawn"}) :
          LET product == Top.product
              ev == <<Ev("verb", product, Verbs[Top.i], VerbStatus(o))>>
          IN /\ Fault(o)
             /\ IF o # "ok" THEN Finish("panic", ev) /\ tmp_held' = {}
                ELSE IF Top.i < Len(Verbs)
                THEN Goto(SetTop([Top EXCEPT !.i = @ + 1]), "none", ev)
                     /\ UNCHANGED tmp_held
                ELSE Goto(SetTop([Top EXCEPT !.pc = "post"]), "none",
                          ev \o <<Ev("built", product, "", "")>>)
                     /\ UNCHANGED tmp_held
    /\ UNCHANGED <<worldVars, persistVars, runVars,
                   run, installs, envchg, idlog, okRoots, prevOk>>

\* ImplPost, were the product marked completed as soon as it is built.
ImplPostCompletesEarly ==
    /\ At("install_product_impl", "post")
    /\ \E o \in Outcomes({"ok", "git_fail", "table_fail"}) :
          /\ Fault(o)
          /\ tmp_held' = tmp_held \ {Top.product}
          /\ build_completed' = build_completed \cup {Top.product}
          /\ IF o = "ok"
             THEN Goto(SetTop([Top EXCEPT !.pc = "declare", !.table = "built"]),
                       "none", <<>>)
             ELSE Goto(Popped, "err", <<>>)
    /\ UNCHANGED <<worldVars, persistVars, branches, repo_map, graph,
                   run, installs, envchg, idlog, okRoots, prevOk>>

\* ImplPost, were the temporary directory given up only by a parsed table.
ImplPostKeepsOnError ==
    /\ At("install_product_impl", "post")
    /\ \E o \in Outcomes({"ok", "git_fail", "table_fail"}) :
          /\ Fault(o)
          /\ IF o = "ok"
             THEN /\ tmp_held' = tmp_held \ {Top.product}
                  /\ Goto(SetTop([Top EXCEPT !.pc = "declare", !.table = "built"]),
                          "none", <<>>)
             ELSE Goto(Popped, "err", <<>>) /\ UNCHANGED tmp_held
    /\ UNCHANGED <<worldVars, persistVars, runVars,
                   run, installs, envchg, idlog, okRoots, prevOk>>

\* .git is removed from the install directory and the installed table parsed.
ImplPost ==
    /\ At("install_product_impl", "post")
    /\ \E o \in Outcomes({"ok", "git_fail", "table_fail"}) :
          /\ Fault(o)
          /\ tmp_held' = tmp_held \ {Top.product}
          /\ IF o = "ok"
             THEN Goto(SetTop([Top EXCEPT !.pc = "declare", !.table = "built"]),
                       "none", <<>>)
             ELSE Goto(Popped, "err", <<>>)
    /\ UNCHANGED <<worldVars, persistVars, runVars,
                   run, installs, envchg, idlog, okRoots, prevOk>>

\* ImplDeclare, were the product not put in build_completed.
ImplDeclareForgets ==
    /\ At("install_product_impl", "declare")
    /\ \E o \in Outcomes({"ok", "declare_fail"}) :
          LET product == Top.product
          IN /\ Fault(o)
             /\ db' = IF o = "ok" THEN Declare(db, product, Top.id, Top.table) ELSE db
             /\ UNCHANGED build_completed
             /\ Goto(Popped, "ok",
                     <<Ev("declare", product, Top.id, IF o = "ok" THEN "ok" ELSE "failed"),
                       Ev("completed", product, "", "")>>)
    /\ UNCHANGED <<worldVars, disk, install_dirs, branches, repo_map, graph, tmp_held,
                   run, installs, envchg, idlog, okRoots, prevOk>>

\* self.db.declare(...), whose result is only logged; build_completed.insert.
ImplDeclare ==
    /\ At("install_product_impl", "declare")
    /\ \E o \in Outcomes({"ok", "declare_fail"}) :
          LET product == Top.product
          IN /\ Fault(o)
             /\ db' = IF o = "ok" THEN Declare(db, product, Top.id, Top.table) ELSE db
             /\ build_completed' = build_completed \cup {product}
             /\ Goto(Popped, "ok",
                     <<Ev("declare", product, Top.id, IF o = "ok" THEN "ok" ELSE "failed"),
                       Ev("completed", product, "", "")>>)
    /\ UNCHANGED <<worldVars, disk, install_dirs, branches, repo_map, graph, tmp_held,
                   run, installs, envchg, idlog, okRoots, prevOk>>

(***************************************************************************)
(* The environment: a new process on the same disk and database, and what  *)
(* may change between two runs.                                            *)
(***************************************************************************)
NewRun ==
    /\ stack = <<>> /\ log # <<>> /\ run < MaxRuns
    /\ run' = run + 1
    /\ alive' = TRUE
    /\ result' = "none"
    /\ stack' = <<>>
    /\ ret' = "none"
    /\ log' = <<>>
    /\ tmp_held' = {}
    /\ branches' = NewBranches(cfg.in_br)
    /\ repo_map' = {}
    /\ graph' = EmptyGraph
    /\ build_completed' = {}
    /\ prevOk' = okRoots
    /\ okRoots' = {}
    /\ UNCHANGED <<worldVars, persistVars, installs, faults, envchg, idlog>>

Between == alive /\ stack = <<>> /\ log = <<>> /\ run > 1 /\ envchg < MaxEnvChanges

Reverse(s) == [k \in 1..Len(s) |-> s[Len(s) + 1 - k]]

\* The required map of a table is iterated in another order.
Reorder(p) ==
    /\ Between /\ Len(tables[p]) >= 2
    /\ tables' = [tables EXCEPT ![p] = Reverse(@)]
    /\ envchg' = envchg + 1
    /\ prevOk' = {}
    /\ UNCHANGED <<world, gen, persistVars, runVars, ctlVars,
                   run, installs, faults, idlog, okRoots>>

\* New commits reach the refs of a repository.
Commit(u) ==
    /\ Between /\ gen[u] = 1
    /\ gen' = [gen EXCEPT ![u] = 2]
    /\ envchg' = envchg + 1
    /\ prevOk' = {}
    /\ UNCHANGED <<tables, world, persistVars, runVars, ctlVars,
                   run, installs, faults, idlog, okRoots>>

\* A product is removed from the database.
Undeclare(p) ==
    /\ Between /\ \E e \in db : e.product = p
    /\ db' = {e \in db : e.product # p}
    /\ envchg' = envchg + 1
    /\ prevOk' = {}
    /\ UNCHANGED <<worldVars, disk, install_dirs, runVars, ctlVars,
                   run, installs, faults, idlog, okRoots>>

Init ==
    /\ \E w \in Worlds : tables = w.tables /\ world = w.cfg.name
    /\ gen = [u \in URLs |-> 1]
    /\ disk = [p \in Products |-> NoDisk]
    /\ install_dirs = {}
    /\ db = {}
    /\ branches = NewBranches(cfg.in_br)
    /\ repo_map = {}
    /\ graph = EmptyGraph
    /\ build_completed = {}
    /\ stack = <<>>
    /\ ret = "none"
    /\ alive = TRUE
    /\ result = "none"
    /\ tmp_held = {}
    /\ log = <<>>
    /\ run = 1
    /\ installs = 0
    /\ faults = 0
    /\ envchg = 0
    /\ idlog = {}
    /\ okRoots = {}
    /\ prevOk = {}

Next ==
    \/ \E root \in Roots : InstallProduct(root)
    \/ InstallClone
    \/ InstallCheckout
    \/ InstallImpl
    \/ InstallReturn
    \/ GraphEnter
    \/ GraphDep
    \/ GraphConnect
    \/ GraphReturn
    \/ ImplEntry
    \/ ImplDep
    \/ ImplDirs
    \/ ImplEnv
    \/ ImplVerb
    \/ ImplPost
    \/ ImplDeclare
    \/ NewRun
    \/ \E p \in Products : Reorder(p)
    \/ \E u \in CommitURLs : Commit(u)
    \/ \E p \in Products : Undeclare(p)

Spec == Init /\ [][Next]_vars

(***************************************************************************)
(* install_product up to the end of graph_repo: the clone and the checkout *)
(* of the root and the graphing of its closure.  The program is sequential *)
(* and takes its next step whenever it has one.                            *)
(***************************************************************************)
ResolveStep ==
    \/ InstallClone
    \/ InstallCheckout
    \/ GraphEnter
    \/ GraphDep
    \/ GraphConnect
    \/ GraphReturn

ResolveNext ==
    \/ \E root \in Roots : InstallProduct(root)
    \/ ResolveStep
    \/ NewRun

ResolveSpec == Init /\ [][ResolveNext]_vars /\ WF_vars(ResolveStep)

(***************************************************************************)
(* The program with the install directories made as main.rs makes them.    *)
(* The install tree is empty at the start, or holds every product's        *)
(* directory already.                                                      *)
(***************************************************************************)
InitMain ==
    /\ \E w \in Worlds : tables = w.tables /\ world = w.cfg.name
    /\ gen = [u \in URLs |-> 1]
    /\ disk = [p \in Products |-> NoDisk]
    /\ install_dirs \in {{}, Products}
    /\ db = {}
    /\ branches = NewBranches(cfg.in_br)
    /\ repo_map = {}
    /\ graph = EmptyGraph
    /\ build_completed = {}
    /\ stack = <<>>
    /\ ret = "none"
    /\ alive = TRUE
    /\ result = "none"
    /\ tmp_held = {}
    /\ log = <<>>
    /\ run = 1
    /\ installs = 0
    /\ faults = 0
    /\ envchg = 0
    /\ idlog = {}
    /\ okRoots = {}
    /\ prevOk = {}

NextMain ==
    \/ \E root \in Roots : InstallProduct(root)
    \/ InstallClone
    \/ InstallCheckout
    \/ InstallImpl
    \/ InstallReturn
    \/ GraphEnter
    \/ GraphDep
    \/ GraphConnect
    \/ GraphReturn
    \/ ImplEntry
    \/ ImplDep
    \/ MainImplDirs
    \/ ImplEnv
    \/ ImplVerb
    \/ ImplPost
    \/ ImplDeclare
    \/ NewRun
    \/ \E p \in Products : Reorder(p)
    \/ \E u \in CommitURLs : Commit(u)
    \/ \E p \in Products : Undeclare(p)

SpecMain == InitMain /\ [][NextMain]_vars

(***************************************************************************)
(* Properties.                                                             *)
(***************************************************************************)
LogIdx == 1..Len(log)

\* The root of the install_product call that event i belongs to.
CallRootAt(i) ==
    LET calls == {j \in 1..i : log[j].e = "call"}
    IN log[CHOOSE j \in calls : \A k \in calls : k <= j].p

RECURSIVE Reach(_)
\* The products reachable from a set through the required maps of the tables.
Reach(set) ==
    LET more == set \cup UNION {Range(tables[p]) : p \in set}
    IN IF more = set THEN set ELSE Reach(more)

Returned(res) == stack = <<>> /\ result = res /\ log # <<>>

LastRoot == log[Len(log)].p

\* C1: after install(r) returned success, the database holds every product of
\* the dependency closure of r under its identity.
C1_ClosureDeclared ==
    (Returned("ok") /\ faults = 0) =>
        \A n \in Reach({LastRoot}) :
            HasIdentity(db, n, MakeProductId(n).id)

\* C2: an install(r) that follows, in a new run and with nothing changed, a
\* successful install(r) of the previous run invokes the build tool not once.
C2_RerunBuildsNothing ==
    \A i \in LogIdx : log[i].e = "verb" => CallRootAt(i) \notin prevOk

ClaimedVerbs == <<"fetch", "prep", "config", "build", "install">>

VerbIndex(v) == CHOOSE k \in 1..Len(ClaimedVerbs) : ClaimedVerbs[k] = v

\* C3: the build tool runs fetch, prep, config, build, install for a product,
\* in this order, each once, and a verb only after the one before exited 0.
C3_VerbOrder ==
    \A i \in LogIdx :
        /\ log[i].e = "verb" =>
              /\ log[i].x \in Range(ClaimedVerbs)
              /\ i > 1
              /\ IF VerbIndex(log[i].x) = 1
                 THEN log[i - 1] = Ev("build_start", log[i].p, "", "")
                 ELSE log[i - 1] = Ev("verb", log[i].p,
                                      ClaimedVerbs[VerbIndex(log[i].x) - 1], "0")
        /\ log[i].e = "built" =>
              /\ i > 6
              /\ log[i - 6] = Ev("build_start", log[i].p, "", "")
              /\ \A k \in 1..5 : log[i - 6 + k] = Ev("verb", log[i].p, ClaimedVerbs[k], "0")
        /\ (log[i].e = "declare" /\ \E j \in 1..i : log[j] = Ev("source", log[i].p, log[i].x, ""))
              => \E j \in 1..i : log[j] = Ev("built", log[i].p, "", "")

C3_Witness ==
    \E i \in LogIdx : log[i].e = "built" /\ log[i].p = "a"

FailedVerb(i) == log[i].e = "verb" /\ log[i].y # "0"

\* C4: a verb that fails ends the install: no build-tool invocation and no
\* declare follow, and neither the product nor the root is in build_completed.
C4_FailureIsFatal ==
    \A i \in LogIdx : FailedVerb(i) =>
        /\ \A j \in LogIdx : j > i => log[j].e \notin {"verb", "declare", "completed",
                                                       "build_start", "dep", "call"}
        /\ log[i].p \notin build_completed
        /\ CallRootAt(i) \notin build_completed
        /\ stack = <<>>

C4_Witness ==
    \E i \in LogIdx : FailedVerb(i) /\ log[i].p = "c" /\ CallRootAt(i) = "a"
                      /\ log[i].x = "config"

\* C5: a verb that fails makes install(root) return an error to its caller.
C5_FailureReturned ==
    \A i \in LogIdx : FailedVerb(i) => (alive /\ Returned("err"))

FailedCheckout(i) == log[i].e = "checkout" /\ log[i].x # "ok"

\* C6: a dependency without a URL, or none of whose refs resolves, ends the
\* resolve with an error; it is not graphed and no edge to it is recorded.
C6_FailedDepStopsResolve ==
    \A i \in LogIdx : (FailedCheckout(i) /\ log[i].p # CallRootAt(i)) =>
        /\ \A j \in LogIdx : j > i => ~(log[j].e = "graph" /\ log[j].p = log[i].p)
        /\ \A j \in LogIdx : j > i => ~(log[j].e = "edge" /\ log[j].x = log[i].p)
        /\ \A j \in LogIdx : j > i => log[j].e # "resolved"

ClaimedList(p) ==
    LET post == DfsPostOrder(graph, p)
    IN IF p \notin {"miniconda_lsst", "scipipe_conda"} /\ "scipipe_conda" \notin Range(post)
       THEN <<"scipipe_conda">> \o post
       ELSE post

\* The events of kind e of product p among log[from..to], in order.
RECURSIVE EventsOf(_, _, _, _)
EventsOf(e, p, from, to) ==
    IF from > to THEN <<>>
    ELSE (IF log[from].e = e /\ log[from].p = p THEN <<log[from].x>> ELSE <<>>)
         \o EventsOf(e, p, from + 1, to)

\* The start of the source build of p that event i belongs to.
SourceStart(p, i) ==
    LET starts == {j \in 1..i : log[j].e = "source" /\ log[j].p = p}
    IN CHOOSE j \in starts : \A k \in starts : k <= j

Without(s, p) == LET Test(x) == x # p IN SelectSeq(s, Test)

\* C7: the dependency list of a source build, for the recursive installs and
\* for the environment alike, is the post-order walk ending in the product,
\* with scipipe_conda first exactly when the walk lacks it and the product is
\* not a bootstrap product.
C7_BootstrapList ==
    \A i \in LogIdx : log[i].e = "build_start" =>
        LET p == log[i].p
            s == SourceStart(p, i)
        IN /\ Last(DfsPostOrder(graph, p)) = p
           /\ EventsOf("dep", p, s, i) = Without(ClaimedList(p), p)
           /\ EventsOf("env", p, s, i) = ClaimedList(p)

C7_Witness ==
    /\ \E i \in LogIdx : log[i].e = "build_start" /\ log[i].p = "a"
                         /\ ClaimedList("a") = <<"scipipe_conda", "b", "a">>
    /\ cfg.name = "chain"

C7_WitnessInClosure ==
    \E i \in LogIdx : log[i].e = "build_start" /\ log[i].p = "a"
                      /\ ClaimedList("a")[1] # "scipipe_conda"


RECURSIVE ClaimedConcat(_, _)
\* The canonical SHAs of the nodes of order, from the k-th on, concatenated:
\* the first recorded version of a node, or the SHA of its HEAD when it has none.
ClaimedConcat(order, k) ==
    IF k > Len(order) THEN ""
    ELSE LET versions == ProductVersions(graph, order[k])
             head_sha == ShaOf(disk[order[k]].url, disk[order[k]].name)
         IN (IF versions # <<>> THEN versions[1] ELSE head_sha)
            \o ClaimedConcat(order, k + 1)

ImplFrames ==
    {k \in 1..Len(stack) : stack[k].fn = "install_product_impl" /\ stack[k].id # ""}

\* C8: the identity of a product is the SHA-1 of the canonical SHAs of the
\* post-order walk from it, concatenated; for a -> b it is SHA1(sha_b || sha_a).
C8_Identity ==
    \A k \in ImplFrames :
        /\ stack[k].id = "sha1(" \o ClaimedConcat(DfsPostOrder(graph, stack[k].product), 1) \o ")"
        /\ (world = "chain" /\ stack[k].product = "a" /\ gen["u_a"] = 1 /\ gen["u_b"] = 1)
              => stack[k].id = "sha1(u_b@w.1#1;u_a@w.1#1;)"

C8_Witness ==
    \E k \in ImplFrames :
        /\ world = "chain" /\ stack[k].product = "a"
        /\ ProductVersions(graph, "b") = <<"u_b@w.1#1;">>
        /\ ProductVersions(graph, "a") = <<>>
        /\ stack[k].id = "sha1(u_b@w.1#1;u_a@w.1#1;)"

SameContents(t1, t2) == \A p \in Products : Range(t1[p]) = Range(t2[p])

\* C9, for any iteration order: two computations of the identity of a node over the same
\* SHAs and the same table contents agree, whatever the order in which the
\* required maps were iterated.
C9_OrderIndependent ==
    \A r1, r2 \in idlog :
        (r1.n = r2.n /\ r1.gen = r2.gen /\ SameContents(r1.tables, r2.tables))
            => r1.id = r2.id

\* C9, for one iteration order: two computations of the identity of a node over the same
\* SHAs and the same tables, iterated in the same order, agree.
C9_Deterministic ==
    \A r1, r2 \in idlog :
        (r1.n = r2.n /\ r1.gen = r2.gen /\ r1.tables = r2.tables) => r1.id = r2.id

C9_Witness ==
    /\ \E r1, r2 \in idlog :
          /\ r1.n = "a" /\ r2.n = "a" /\ r1.run # r2.run
          /\ r1.gen = r2.gen /\ r1.tables = r2.tables /\ r1.id = r2.id
    /\ \E r1, r2 \in idlog :
          /\ r1.n = r2.n /\ r1.run = r2.run /\ r1.call # r2.call
          /\ r1.gen = r2.gen /\ r1.tables = r2.tables /\ r1.id = r2.id

\* C10: once resolve(r) is over, every product reachable from r through the
\* required maps has a handle in repo_map and a node in the graph.
C10_ResolveComplete ==
    \A i \in LogIdx : log[i].e = "resolved" =>
        \A n \in Reach({log[i].p}) : n \in repo_map /\ HasProduct(graph, n)

C10_Witness ==
    \E i \in LogIdx : /\ log[i].e = "resolved" /\ log[i].p = "a"
                      /\ Cardinality(Reach({"a"})) = 5

Calls == {k \in LogIdx : log[k].e = "call"}

\* Events i and j (i <= j) belong to the same call of install_product.
SameCall(i, j) == \A k \in Calls : ~(i < k /\ k <= j)

ResolveKind(e) == IF e \in {"open", "clone"} THEN "clone" ELSE e

HasEdge(g, source, target) ==
    \E k \in 1..Len(g.edges) : g.edges[k].src = source /\ g.edges[k].dst = target

\* C11: within one resolve a product is cloned or opened, checked out and
\* graphed at most once, whatever the number of its parents, and once the
\* resolve is over every (parent, dep) pair of a parsed table is an edge.
C11_GraphedOnce ==
    LET steps == {i \in LogIdx : log[i].e \in {"open", "clone", "checkout", "graph"}}
        graphs == {i \in steps : log[i].e = "graph"}
        ends == {j \in LogIdx : log[j].e = "resolved"}
        edges == {k \in LogIdx : log[k].e = "edge"}
    IN /\ \A i, j \in steps :
             (i < j /\ log[i].p = log[j].p /\ SameCall(i, j))
                 => ResolveKind(log[j].e) # ResolveKind(log[i].e)
       /\ \A j \in ends : \A i \in graphs :
             (i < j /\ SameCall(i, j))
                 => \A d \in Range(tables[log[i].p]) :
                        /\ HasEdge(graph, log[i].p, d)
                        /\ \E k \in edges : /\ i < k /\ k < j
                                            /\ log[k].p = log[i].p /\ log[k].x = d

C11_Witness ==
    /\ world = "diamond"
    /\ \E j \in LogIdx : log[j].e = "resolved" /\ log[j].p = "a"
    /\ Cardinality({i \in LogIdx : log[i].e = "clone" /\ log[i].p = "scipipe_conda"}) = 1
    /\ HasEdge(graph, "b", "scipipe_conda") /\ HasEdge(graph, "c", "scipipe_conda")

\* A candidate ref of the clone of p that resolves and whose tree checks out.
ChecksOut(p, name) ==
    LET up == cfg.repos[disk[p].url]
    IN name \in up.refs \cup up.tags /\ name \notin up.tree_fail

\* The first candidate of cands that checks out in the clone of p ("" if none).
FirstGood(p, cands) ==
    LET good == {k \in 1..Len(cands) : ChecksOut(p, cands[k])}
    IN IF good = {} THEN ""
       ELSE cands[CHOOSE k \in good : \A m \in good : k <= m]

\* The checkout that has just ended: the last event, or the one before the
\* return it caused.
JustCheckedOut ==
    IF log = <<>> THEN 0
    ELSE IF Last(log).e = "checkout" THEN Len(log)
    ELSE IF Len(log) > 1 /\ Last(log).e = "return" /\ log[Len(log) - 1].e = "checkout"
    THEN Len(log) - 1
    ELSE 0

\* C12: a checkout takes the first candidate of the ref list that resolves and
\* whose tree checks out, and leaves HEAD on it; with no such candidate it
\* fails for want of a matching ref and HEAD stays where it was.
C12_FirstMatchingRef ==
    /\ \A i \in LogIdx : (log[i].e = "checkout" /\ log[i].x \in {"ok", "nomatch"}) =>
          LET first == FirstGood(log[i].p, RefList(log[i].p))
          IN /\ log[i].y = first
             /\ log[i].x = (IF first = "" THEN "nomatch" ELSE "ok")
    /\ (JustCheckedOut > 0 /\ log[JustCheckedOut].x \in {"ok", "nomatch"}) =>
          LET p == log[JustCheckedOut].p
              first == FirstGood(p, RefList(p))
          IN disk[p].name = (IF first = "" THEN cfg.repos[disk[p].url].dflt ELSE first)

C12_Witness ==
    /\ world = "diamond" /\ JustCheckedOut > 0
    /\ log[JustCheckedOut] = Ev("checkout", "c", "ok", "master")
    /\ ChecksOut("c", "master") /\ ~ChecksOut("c", "w.1")
    /\ disk["c"].name = "master" /\ disk["c"].ns = "refs/remotes/"

C12_WitnessNoMatch ==
    /\ world = "noref" /\ JustCheckedOut > 0
    /\ log[JustCheckedOut] = Ev("checkout", "b", "nomatch", "")
    /\ disk["b"].name = "main"

\* The ref list of p: the user's branches, then master; with a pinned ref, the
\* user's branches without master, then the pinned ref.
ClaimedRefList(p) ==
    IF HasRef(p) = "" THEN cfg.in_br \o <<"master">>
    ELSE Without(cfg.in_br, "master") \o <<HasRef(p)>>

\* C13: the refs tried for a product are the user's branches followed by
\* master, or, under a pinned ref, the user's branches without master followed
\* by the pinned ref; a checkout never lands outside this list.
C13_RefList ==
    /\ \A p \in Products : RefList(p) = ClaimedRefList(p)
    /\ \A i \in LogIdx : (log[i].e = "checkout" /\ log[i].x = "ok") =>
          /\ log[i].y \in Range(ClaimedRefList(log[i].p))
          /\ HasRef(log[i].p) # "" => log[i].y # "master"

C13_Witness ==
    /\ world = "overlay"
    /\ HasRef("b") = "base_branch" /\ HasRef("a") = ""
    /\ RefList("b") = <<"w.1", "base_branch">> /\ RefList("a") = <<"w.1", "master">>
    /\ \E i, j \in LogIdx : /\ log[i] = Ev("checkout", "a", "ok", "master")
                            /\ log[j] = Ev("checkout", "b", "ok", "base_branch")

ClaimedEntry(p) ==
    IF cfg.local_map[p].kind # "absent" THEN cfg.local_map[p] ELSE cfg.remote_map[p]

\* C14: a product whose key is in the local map is looked up there only, for
\* its URL and for its pinned ref, whatever the entry yields; any other
\* product is looked up in the remote map; a product of neither map has no
\* URL and no pinned ref.
C14_LocalFirst ==
    /\ \A p \in Products :
          /\ GetUrl(p) = (IF ClaimedEntry(p).kind \in {"str", "hash"}
                          THEN ClaimedEntry(p).url ELSE "")
          /\ HasRef(p) = (IF ClaimedEntry(p).kind = "hash" THEN ClaimedEntry(p).ref ELSE "")
          /\ (cfg.local_map[p].kind = "absent" /\ cfg.remote_map[p].kind = "absent")
                => (GetUrl(p) = "" /\ HasRef(p) = "")
    /\ \A i \in LogIdx : log[i].e \in {"open", "clone"} =>
          /\ ClaimedEntry(log[i].p).kind \in {"str", "hash"}
          /\ log[i].x = ClaimedEntry(log[i].p).url
    /\ \A i \in LogIdx : (log[i].e = "checkout" /\ log[i].x = "ok") =>
          log[i].y \in Range(branches) \cup {ClaimedEntry(log[i].p).ref}

C14_Witness ==
    /\ world = "overlay"
    /\ cfg.local_map["a"].kind = "hash" /\ cfg.remote_map["a"].ref = "base_branch"
    /\ cfg.local_map["b"].kind = "absent"
    /\ \E i, j \in LogIdx : /\ log[i] = Ev("clone", "a", "u_a_local", "")
                            /\ log[j] = Ev("clone", "b", "u_b", "")
    /\ HasRef("a") = "" /\ HasRef("b") = "base_branch"

C14_WitnessOther ==
    /\ world = "malformed" /\ Returned("panic") /\ LastRoot = "scipipe_conda"
    /\ \A i \in LogIdx : log[i].p # "miniconda_lsst"

\* The calls of install_product that follow, in this run, a call for the same
\* root that returned Ok.
Repeats ==
    {i \in Calls : \E r \in LogIdx : /\ r < i /\ log[r] = Ev("return", log[i].p, "ok", "")}

InstallEvents ==
    {"dbhit", "source", "dep", "mkdir", "canon", "tmp", "env", "build_start", "verb",
     "built", "declare", "completed"}

\* C15: within a run, an install(r) that follows a successful install(r)
\* stops at the completed set: it invokes no build tool, declares nothing,
\* adds nothing to completed, and succeeds.
C15_Idempotent ==
    \A i \in Repeats : \A j \in LogIdx : (i < j /\ SameCall(i, j)) =>
        /\ log[j].e \notin InstallEvents
        /\ (log[j].e = "return" /\ faults = 0) => log[j].x = "ok"

C15_Witness ==
    /\ world = "chain" /\ Returned("ok") /\ LastRoot = "a"
    /\ \E i \in Repeats : /\ log[i].p = "a"
                          /\ \E j \in LogIdx : j > i /\ log[j] = Ev("resolved", "a", "", "")
    /\ \E k \in LogIdx : log[k] = Ev("built", "a", "", "")

Completions == {i \in LogIdx : log[i].e = "completed"}

\* C16: within a run, a product whose install_product_impl returned Ok is in
\* build_completed, and no build-tool invocation, declare or database lookup
\* for it follows: it is built and declared at most once.
C16_OncePerRun ==
    /\ \A i \in Completions :
          /\ log[i].p \in build_completed
          /\ \A j \in LogIdx : (j > i /\ log[j].p = log[i].p) =>
                log[j].e \notin InstallEvents
    /\ \A i, j \in LogIdx :
          (log[i].e = "declare" /\ log[j].e = "declare" /\ log[i].p = log[j].p) => i = j

C16_Witness ==
    /\ world = "diamond" /\ Returned("ok") /\ LastRoot = "a"
    /\ \E i \in Completions : \E j, k \in LogIdx :
          /\ log[i].p = "scipipe_conda" /\ i < j /\ j < k
          /\ log[j] = Ev("dep", "b", "scipipe_conda", "")
          /\ log[k] = Ev("dep", "c", "scipipe_conda", "")
    /\ Cardinality({i \in LogIdx : log[i].e = "built" /\ log[i].p = "scipipe_conda"}) = 1

FailedDeclare(i) == log[i].e = "declare" /\ log[i].y = "failed"

\* C17: a declare that fails is fatal: the product is not put in
\* build_completed, nothing is built or declared afterwards, and the install
\* returns an error.
C17_DeclareFailureFatal ==
    \A i \in LogIdx : FailedDeclare(i) =>
        /\ log[i].p \notin build_completed
        /\ \A j \in LogIdx : (j > i /\ SameCall(i, j)) =>
              /\ log[j].e \notin {"completed", "build_start", "verb", "built", "declare"}
              /\ log[j].e = "return" => log[j].x = "err"

\* C18: when the first verb of a source build of p is invoked, every other
\* member of its dependency list has returned Ok from install_product_impl in
\* this run and is in the database under its identity: children are built
\* before their parents.
C18_DependenciesFirst ==
    /\ \A i \in LogIdx : log[i].e = "build_start" =>
          \A d \in Range(ClaimedList(log[i].p)) \ {log[i].p} :
              /\ \E j \in Completions : j < i /\ log[j].p = d
              /\ d \in build_completed
              /\ \A k \in LogIdx : (log[k].e = "verb" /\ log[k].p = d) => k < i
    /\ (log # <<>> /\ Last(log).e = "build_start") =>
          \A d \in Range(ClaimedList(Last(log).p)) \ {Last(log).p} :
              HasIdentity(db, d, MakeProductId(d).id)

C18_Witness ==
    /\ world = "diamond"
    /\ \E i \in LogIdx :
          /\ log[i] = Ev("build_start", "a", "", "")
          /\ \A d \in {"miniconda_lsst", "scipipe_conda", "b", "c"} :
                \E k \in LogIdx : k < i /\ log[k] = Ev("built", d, "", "")

\* The step that follows a database hit for p under id.
HitStep ==
    (log # <<>> /\ Last(log).e = "dbhit") =>
        LET p == Last(log).p
            id == Last(log).x
        IN /\ HasIdentity(db, p, id)
           /\ \E y \in {"ok", "failed"} :
                 log' = log \o <<Ev("declare", p, id, y), Ev("completed", p, "", "")>>
           /\ db' = db
           /\ build_completed' = build_completed \cup {p}
           /\ UNCHANGED <<install_dirs, tmp_held, idlog>>

\* C19: on a database hit install_product_impl builds nothing and accumulates
\* no environment: it declares the product again with the stored table under
\* the same identity, which leaves the database as it was, and puts the
\* product in build_completed.
C19_DatabaseHit == [][HitStep]_vars

C19_Witness ==
    /\ run = 2 /\ world = "chain"
    /\ \E i \in LogIdx :
          /\ log[i].e = "dbhit" /\ log[i].p = "a" /\ i + 2 <= Len(log)
          /\ log[i + 1] = Ev("declare", "a", log[i].x, "ok")
          /\ log[i + 2] = Ev("completed", "a", "", "")
    /\ \A i \in LogIdx : log[i].e \notin {"verb", "env", "mkdir"}
    /\ "a" \in build_completed

\* C20: the environment of a build of p takes every other node of the
\* dependency list from the database under its identity; a node the database
\* does not hold makes the install fail before any verb for p, with p neither
\* declared nor in build_completed.  p itself is never looked up: its table is
\* the local one, under a LOCAL: path.
C20_UndeclaredDependency ==
    /\ \A i \in LogIdx : log[i].e = "undeclared" =>
          /\ log[i].x # log[i].p
          /\ log[i].p \notin build_completed
          /\ \A j \in LogIdx : (j > i /\ SameCall(i, j)) =>
                /\ log[j].e \notin InstallEvents
                /\ log[j].e = "return" => log[j].x = "err"
    /\ \A i \in LogIdx : log[i].e = "env" => (log[i].y = "LOCAL" <=> log[i].x = log[i].p)
    /\ (log # <<>> /\ Last(log).e = "undeclared") =>
          ~HasIdentity(db, Last(log).x, MakeProductId(Last(log).x).id)
    /\ (log # <<>> /\ Last(log).e = "build_start") =>
          \A i \in LogIdx :
              (log[i].e = "env" /\ log[i].p = Last(log).p /\ log[i].y = "db"
                  /\ i >= SourceStart(Last(log).p, Len(log)))
                  => HasIdentity(db, log[i].x, MakeProductId(log[i].x).id)

C20_Witness ==
    /\ Returned("err") /\ LastRoot = "scipipe_conda"
    /\ \E i \in LogIdx :
          /\ log[i] = Ev("undeclared", "scipipe_conda", "miniconda_lsst", "")
          /\ \E j \in LogIdx : j < i /\ log[j].e = "declare" /\ log[j].y = "failed"
                               /\ log[j].p = "miniconda_lsst"
    /\ \A e \in db : e.product # "miniconda_lsst"

\* The lifecycle state an event takes its product to (0: none).
Stage(e) ==
    IF e \in {"open", "clone"} THEN 1
    ELSE IF e = "checkout" THEN 2
    ELSE IF e = "graph" THEN 3
    ELSE IF e \in {"dbhit", "source"} THEN 4
    ELSE IF e = "built" THEN 5
    ELSE IF e = "declare" THEN 6
    ELSE IF e = "completed" THEN 7
    ELSE 0

\* C21: within a run a product moves through cloned, checked out, graphed,
\* hashed, built or found, declared, completed only forward: nothing takes it
\* back, and a graphed product is not cloned, checked out or graphed again.
C21_ForwardOnly ==
    LET staged == {i \in LogIdx : Stage(log[i].e) > 0}
        graphed == {i \in staged : Stage(log[i].e) >= 3}
    IN \A i \in graphed : \A j \in staged :
          (i < j /\ log[i].p = log[j].p) =>
              /\ Stage(log[j].e) > 3
              /\ Stage(log[i].e) = 7 => Stage(log[j].e) >= 7

\* The checkout of product x that precedes event i most closely (0: none).
LastCheckout(x, i) ==
    LET outs == {j \in 1..i : log[j].e = "checkout" /\ log[j].p = x}
    IN IF outs = {} THEN 0 ELSE CHOOSE j \in outs : \A k \in outs : k <= j

\* C22: the edge to a child carries the SHA of the child's HEAD, read after
\* the child's checkout, and versions(child) holds it.
C22_EdgeSha ==
    /\ \A i \in LogIdx : log[i].e = "edge" =>
          LET c == log[i].x
              k == LastCheckout(c, i)
          IN /\ log[i].y \in Range(ProductVersions(graph, c))
             /\ k > 0
             /\ log[k].x = "ok" => log[i].y = ShaOf(disk[c].url, log[k].y)
    /\ (log # <<>> /\ Last(log).e = "edge") =>
          Last(log).y = ShaOf(disk[Last(log).x].url, disk[Last(log).x].name)

C22_Witness ==
    /\ world = "chain" /\ log # <<>>
    /\ Last(log) = Ev("edge", "a", "b", "u_b@w.1#1;")
    /\ ProductVersions(graph, "b") = <<"u_b@w.1#1;">>
    /\ log[LastCheckout("b", Len(log))] = Ev("checkout", "b", "ok", "w.1")

\* The commit HEAD of the clone of n points at, read from the disk.
HeadSha(n) == ShaOf(disk[n].url, disk[n].name)

\* The identity of p was computed by the last step.
JustHashed(p) ==
    /\ log # <<>> /\ Last(log).p = p /\ Last(log).e \in {"source", "dbhit"}

C23_WitnessNoEdges ==
    /\ JustHashed("a") /\ tables["a"] = <<>>
    /\ ProductVersions(graph, "a") = <<>>
    /\ Last(log).x = Sha1(HeadSha("a"))

\* The events a step appends to the log.
NewEvents == IF Len(log') > Len(log) THEN SubSeq(log', Len(log) + 1, Len(log')) ELSE <<>>

\* A step with a checkout that finds no ref: the clone of the product is left
\* as it was before the checkout (as the clone made it, when the same step
\* cloned it), and install_product hands the error back for a root.
NoMatchStep ==
    \A k \in 1..Len(NewEvents) :
       (NewEvents[k].e = "checkout" /\ NewEvents[k].x = "nomatch") =>
          LET p == NewEvents[k].p
              cloned == \E j \in 1..k : NewEvents[j].e = "clone" /\ NewEvents[j].p = p
              up == cfg.repos[GetUrl(p)]
          IN /\ \A name \in Range(RefList(p)) :
                   name \notin up.refs \cup up.tags \/ name \in up.tree_fail
             /\ disk'[p] = (IF cloned THEN Cloned(GetUrl(p)) ELSE disk[p])
             /\ Top.fn = "install_product" => (result' = "err" /\ stack' = <<>>)

\* C24: a checkout whose every candidate ref fails to resolve or to check out
\* ends with the no-matching-ref error and leaves HEAD where it was.
C24_NoMatchKeepsHead == [][NoMatchStep]_vars

\* No tree of c checks out although both candidates resolve.
C24_Witness ==
    /\ world = "brokencopy" /\ JustCheckedOut > 0
    /\ log[JustCheckedOut] = Ev("checkout", "c", "nomatch", "")
    /\ disk["c"].name = "master" /\ disk["c"].ns = "refs/heads/"
    /\ \A name \in Range(RefList("c")) : name \in cfg.repos["u_c"].refs

\* The checkout at event i is the one install_product makes for its root.
RootCheckout(i) == i > 2 /\ log[i - 2].e = "call"

\* set_head fails on ref name in the clone of p.
SetHeadFails(p, name) == name \in cfg.repos[GetUrl(p)].sethead_fail

\* C25: when set_head fails on the first candidate that resolved and checked
\* out, the checkout ends at once with that error: no later candidate is
\* taken, the outcome is neither success nor the no-matching-ref error, HEAD
\* stays where it was, and install_product hands the error back for a root.
C25_SetHeadFailureFatal ==
    /\ \A i \in LogIdx : (log[i].e = "checkout" /\ log[i].x # "panic") =>
          LET p == log[i].p
              cands == RefList(p)
              good == {k \in 1..Len(cands) :
                          LET up == cfg.repos[GetUrl(p)]
                          IN cands[k] \in up.refs \cup up.tags /\ cands[k] \notin up.tree_fail}
              first == IF good = {} THEN ""
                       ELSE cands[CHOOSE k \in good : \A m \in good : k <= m]
          IN /\ (first # "" /\ SetHeadFails(p, first)) <=> log[i].x = "sethead"
             /\ log[i].x = "sethead" =>
                   /\ log[i].y = first
                   /\ RootCheckout(i) =>
                         (i < Len(log) /\ log[i + 1] = Ev("return", p, "err", ""))
    /\ (JustCheckedOut > 0 /\ log[JustCheckedOut].x = "sethead") =>
          LET p == log[JustCheckedOut].p
          IN disk[p].name = cfg.repos[disk[p].url].dflt /\ disk[p].ns = "refs/heads/"

\* set_head failed on w.1 in b while master, the next candidate, is sound.
C25_Witness ==
    /\ world = "brokencopy" /\ JustCheckedOut > 0
    /\ log[JustCheckedOut] = Ev("checkout", "b", "sethead", "w.1")
    /\ RefList("b") = <<"w.1", "master">>
    /\ ChecksOut("b", "master") /\ ~SetHeadFails("b", "master")
    /\ disk["b"].name = "master" /\ disk["b"].ns = "refs/heads/"

\* The same for a root: install_product returned the error.
C25_WitnessRoot ==
    /\ world = "brokencopy" /\ Returned("err") /\ LastRoot = "scipipe_conda"
    /\ log[Len(log) - 1] = Ev("checkout", "scipipe_conda", "sethead", "w.1")

\* The product has no URL: neither map yields one.
NoUrl(p) == GetUrl(p) = "" /\ ~GetUrlPanics(p)

\* The two steps of install_product for a root without URL: the call, and the
\* return of the error of get_or_clone_repo; neither touches the repositories,
\* the graph, the completed set, the database or the disk.
NoUrlStep ==
    /\ (stack = <<>> /\ stack' # <<>> /\ NoUrl(stack'[1].product)) =>
          /\ log' = Append(log, Ev("call", stack'[1].product, "", ""))
          /\ UNCHANGED <<repo_map, graph, build_completed, db, disk, install_dirs, tmp_held>>
    /\ (stack # <<>> /\ NoUrl(stack[1].product)) =>
          /\ Last(log) = Ev("call", stack[1].product, "", "")
          /\ stack' = <<>> /\ result' = "err" /\ alive'
          /\ log' = Append(log, Ev("return", stack[1].product, "err", ""))
          /\ UNCHANGED <<repo_map, graph, build_completed, db, disk, install_dirs, tmp_held>>

\* C26: install_product of a root without URL in either map returns an error
\* without panicking; nothing is cloned, built or declared, and the repository
\* cache, the graph, the completed set and the database stay as they were.
C26_UnknownRoot == [][NoUrlStep]_vars

\* a has no URL and its install returned the error, next to a repository
\* cache that holds scipipe_conda.
C26_Witness ==
    /\ world = "badroot" /\ NoUrl("a") /\ Returned("err") /\ alive
    /\ Len(log) >= 2 /\ log[Len(log) - 1] = Ev("call", "a", "", "")
    /\ Last(log) = Ev("return", "a", "err", "")
    /\ repo_map = {"scipipe_conda"}

\* The events of kind e of product p before event i, since the source event
\* of p that event i belongs to.
DirEvents(e, p, i) ==
    {j \in SourceStart(p, i)..i : log[j].e = e /\ log[j].p = p /\ log[j].x = ""}

\* C27: before the first verb of a source-built product its install directory
\* has been created and then canonicalized; and the canonicalization never
\* fails for want of the directory, so that a product whose install directory
\* does not exist yet still reaches the build tool.
C27_DirectoryReady ==
    /\ \A i \in LogIdx : log[i].e = "build_start" =>
          LET p == log[i].p
          IN /\ \E m \in DirEvents("mkdir", p, i) :
                   \E c \in DirEvents("canon", p, i) : m < c
             /\ (i = Len(log)) => p \in install_dirs
    /\ \A i \in LogIdx :
          ~(log[i].e = "canon" /\ log[i].x = "failed" /\ log[i].y = "missing")

\* The products whose install_product_impl is between its directories and the
\* end of its build block.
Building ==
    {stack[k].product : k \in {j \in 1..Len(stack) :
        stack[j].fn = "install_product_impl" /\ stack[j].pc \in {"env", "build", "post"}}}

\* C28: a temporary build directory is held only by a product that is being
\* built and has an upstream directory; none is held once install_product is
\* over, however it ended; and a product without upstream directory gives
\* its temporary directory up before the build starts.
C28_TmpReleased ==
    /\ tmp_held \subseteq Building \cap cfg.upstream
    /\ stack = <<>> => tmp_held = {}
    /\ \A i \in LogIdx : log[i].e = "build_start" =>
          LET p == log[i].p
              kept == EventsOf("tmp", p, SourceStart(p, i), i)
          IN /\ kept = (IF p \in cfg.upstream THEN <<"kept">> ELSE <<"dropped">>)
             /\ (i = Len(log)) => (p \in tmp_held <=> p \in cfg.upstream)

\* The build of c, which has an upstream directory, took a temporary
\* directory and a failed verb ended the process: nothing is held.
C28_Witness ==
    /\ Returned("panic") /\ tmp_held = {}
    /\ \E i \in LogIdx : log[i] = Ev("tmp", "c", "kept", "")
    /\ log[Len(log) - 1].e = "verb" /\ log[Len(log) - 1].p = "c"

\* The same for an error return after the build of c.
C28_WitnessError ==
    /\ Returned("err") /\ tmp_held = {}
    /\ \E i \in LogIdx : log[i] = Ev("tmp", "c", "kept", "")
    /\ log[Len(log) - 1] = Ev("built", "c", "", "")

\* b has no upstream directory and its build has just started in place.
C28_WitnessInPlace ==
    /\ log # <<>> /\ Last(log) = Ev("build_start", "b", "", "")
    /\ \E i \in LogIdx : log[i] = Ev("tmp", "b", "dropped", "")
    /\ "b" \notin tmp_held

\* The identity install_product_impl computed for p in the call event i belongs to.
HashedId(p, i) ==
    LET starts == {j \in 1..i : log[j].e \in {"source", "dbhit"} /\ log[j].p = p}
    IN IF starts = {} THEN ""
       ELSE log[CHOOSE j \in starts : \A k \in starts : k <= j].x

\* An error return of install_product_impl: nothing is declared, nothing is
\* completed, and the product is not in the completed set.
ImplErrorStep ==
    (At("install_product_impl", Top.pc) /\ stack' = Popped /\ ret' = "err") =>
        /\ UNCHANGED <<db, build_completed>>
        /\ Top.product \notin build_completed
        /\ \A k \in 1..Len(NewEvents) : NewEvents[k].e \notin {"declare", "completed"}

\* What the log says of the completed set.
CompletedAfterDeclare ==
    /\ \A p \in build_completed : \E i \in LogIdx : log[i].e = "declare" /\ log[i].p = p
    /\ \A i \in LogIdx : log[i].e = "completed" =>
          /\ i > 1 /\ log[i - 1].e = "declare" /\ log[i - 1].p = log[i].p
          /\ log[i - 1].x = HashedId(log[i].p, i) /\ log[i - 1].x # ""
          /\ log[i].p \in build_completed
    /\ \A i \in LogIdx : log[i].e = "declare" =>
          i < Len(log) /\ log[i + 1] = Ev("completed", log[i].p, "", "")

\* C29: the completed set holds only products declare was called for in this
\* run; a product enters it right after its declare call, which carries the
\* identity computed at the start of the same install_product_impl call; and
\* an error return of install_product_impl comes before both.
C29_CompletedDeclared == [](CompletedAfterDeclare) /\ [][ImplErrorStep]_vars

\* b was built from source, declared under the identity hashed at the start
\* of its call, and completed; a is not completed yet.
C29_Witness ==
    /\ world = "chain" /\ build_completed = {"miniconda_lsst", "scipipe_conda", "b"}
    /\ log # <<>> /\ Last(log) = Ev("completed", "b", "", "")
    /\ log[Len(log) - 1] = Ev("declare", "b", HashedId("b", Len(log)), "ok")
    /\ \E i \in LogIdx : log[i] = Ev("source", "b", HashedId("b", Len(log)), "")

\* The step that follows a database hit for p: install_product_impl returns
\* at once, with one declare, for p; no identity is computed or looked up for
\* another product, and the completed set and the database change for p only.
HitReturns ==
    (log # <<>> /\ Last(log).e = "dbhit" /\ stack # <<>>) =>
        LET p == Last(log).p
            declares == {k \in 1..Len(NewEvents) : NewEvents[k].e = "declare"}
        IN /\ Top.product = p
           /\ stack' = Popped /\ ret' = "ok"
           /\ Cardinality(declares) = 1
           /\ \A k \in 1..Len(NewEvents) :
                 NewEvents[k].p = p /\ NewEvents[k].e \in {"declare", "completed"}
           /\ idlog' = idlog
           /\ build_completed' \ build_completed \subseteq {p}
           /\ p \in build_completed'
           /\ \A d \in (db' \ db) \cup (db \ db') : d.product = p

\* C30: on a database hit for p install_product_impl does not go into the
\* dependencies of p: one declare, for p, is issued, the completed set gains
\* p alone, and no dependency of p is looked up, declared or completed.
C30_HitDoesNotRecurse == [][HitReturns]_vars

\* a was found in the database in a later run and completed, while b, which
\* it requires, is neither looked up nor completed in that run.
C30_Witness ==
    /\ world = "chain" /\ run = 2 /\ tables["a"] = <<"b">>
    /\ log # <<>> /\ Last(log) = Ev("completed", "a", "", "")
    /\ \E i \in LogIdx : log[i].e = "dbhit" /\ log[i].p = "a"
    /\ build_completed = {"a"}
    /\ \A i \in LogIdx : log[i].p = "b" => log[i].e \in {"clone", "open", "checkout", "graph"}

\* Event i sends install_product_impl of log[i].p into the python environment
\* while this run has neither graphed nor completed it.
BootstrapMiss(i) ==
    /\ log[i].e = "dep" /\ log[i].x = PythonEnv
    /\ \A j \in 1..i : ~(log[j].p = PythonEnv /\ log[j].e \in {"graph", "completed"})

\* C31: when the bootstrap rule sends a source-built product p into
\* scipipe_conda and this run has neither graphed nor completed scipipe_conda,
\* the call for scipipe_conda fails on the unknown graph node and
\* install_product returns the error; no verb has run for p, and p is
\* neither declared nor completed.
C31_BootstrapUnknownNode ==
    \A i \in LogIdx : BootstrapMiss(i) =>
       LET p == log[i].p
           from == SourceStart(p, i)
           to == IF Len(log) < i + 2 THEN Len(log) ELSE i + 2
       IN /\ p \notin BootstrapProducts
          /\ i < Len(log) => log[i + 1] = Ev("unknown_node", PythonEnv, "", "")
          /\ i + 1 < Len(log) => (log[i + 2].e = "return" /\ log[i + 2].x = "err")
          /\ \A j \in from..to :
                ~(log[j].p = p /\ log[j].e \in {"verb", "build_start", "declare", "completed"})
          /\ Len(log) <= i + 2 =>
                /\ ~HasProduct(graph, PythonEnv) /\ PythonEnv \notin build_completed
                /\ PythonEnv \notin Range(DfsPostOrder(graph, p))
                /\ p \notin build_completed
                /\ ~HasIdentity(db, p, log[from].x)

\* install_product("a") in the chain world: a requires b alone, the
\* bootstrap rule put scipipe_conda first, and the error came back.
C31_Witness ==
    /\ world = "chain" /\ Returned("err") /\ LastRoot = "a" /\ Len(log) > 3
    /\ BootstrapMiss(Len(log) - 2) /\ log[Len(log) - 2].p = "a"
    /\ log[Len(log) - 1] = Ev("unknown_node", PythonEnv, "", "")
    /\ HasProduct(graph, "a") /\ HasProduct(graph, "b")

\* The frames of graph_repo on the stack.
GraphFrames == {k \in 1..Len(stack) : stack[k].fn = "graph_repo"}

\* graph_repo is running.
InResolve == alive /\ stack # <<>> /\ Top.fn = "graph_repo"

\* graph_repo is over: install_product went on, or ended otherwise than by
\* running out of stack.
ResolveEnded ==
    \/ stack # <<>> /\ Top.fn # "graph_repo"
    \/ stack = <<>> /\ result # "overflow"

\* No product is graphed inside its own graph_repo call, a product is in the
\* graph once its dependencies are visited, and the calls nest no deeper
\* than there are products.
ResolveBounded ==
    /\ \A j, k \in GraphFrames : stack[j].product = stack[k].product => j = k
    /\ \A k \in GraphFrames : stack[k].pc # "enter" => HasProduct(graph, stack[k].product)
    /\ Cardinality(GraphFrames) <= Cardinality(Products)
    /\ \A i \in LogIdx : log[i].e = "graph" =>
          Cardinality({j \in 1..i : log[j].e = "graph" /\ SameCall(j, i)})
              <= Cardinality(Products)

\* C32: graph_repo comes to an end for every set of tables, a dependency
\* cycle included: a product is added to the graph before its dependencies
\* are visited and is not gone into again, so the calls of graph_repo are
\* bounded by the number of products.
C32_ResolveTerminates == [](ResolveBounded) /\ (InResolve ~> ResolveEnded)

\* a requires b and b requires a: both are graphed, each edge is there, and
\* graph_repo has returned to install_product.
C32_Witness ==
    /\ world = "cycle" /\ tables["a"] = <<"b">> /\ tables["b"] = <<"a">>
    /\ At("install_product", "impl") /\ Top.product = "a"
    /\ HasEdge(graph, "a", "b") /\ HasEdge(graph, "b", "a")
    /\ Cardinality({i \in LogIdx : log[i].e = "graph"}) = 2

\* The frames of install_product_impl on the stack.
ImplCalls == {k \in 1..Len(stack) : stack[k].fn = "install_product_impl"}

\* C33: install_product_impl comes to an end for every resolved graph: the
\* recursion over the dependency lists never enters install_product_impl of
\* a product whose call is still in progress, and never runs out of stack.
C33_ImplTerminates ==
    /\ \A j, k \in ImplCalls : stack[j].product = stack[k].product => j = k
    /\ result # "overflow"

====
